---- MODULE Spec2Model ----
(***************************************************************************)
(* PiWiFi web client (src/app.js): the chunked BLE notification protocol.  *)
(* onResponse reassembles [index, total, payload...] notifications into a  *)
(* message, decodes it as UTF-8 JSON and hands it to handleResponse.       *)
(*                                                                         *)
(* Bytes are numbers, text is a sequence of one-character strings, JSON    *)
(* values are tagged records.  The DOM, the charts and the data kept only  *)
(* for drawing them (signalData, channelsData) are not modelled; of the    *)
(* handlers the model keeps which one ran and whether it raised.           *)
(*                                                                         *)
(* Spec is the reassembler under notifications alone, from the state in    *)
(* which connect has subscribed.  SpecLink is the script as a whole:       *)
(* connect step by step at its awaits, the disconnect event, sendCommand   *)
(* calls and the settling of their writes, interleaved with a small set    *)
(* of notifications.  Of a write the model keeps that it is in flight, not *)
(* its bytes.                                                              *)
(***************************************************************************)
EXTENDS Integers, Sequences, FiniteSets, TLC

(* ---------------------------------------------------------------------- *)
(* Bounds                                                                 *)
(* ---------------------------------------------------------------------- *)

\* Largest values of the two header bytes the environment sends (each is
\* 0..255 on the wire).  index ranges over 0..MaxIndex and total over
\* 0..MaxTotal, so an index at or beyond the total and a total of 0 are
\* among the inputs.
MaxIndex == 2
MaxTotal == 3
\* The most writeValue calls in flight at once.
MaxPending == 2

(* ---------------------------------------------------------------------- *)
(* Bytes and text                                                         *)
(* ---------------------------------------------------------------------- *)

\* The printable ASCII characters, in code order starting at code 32 (the
\* grave accent, code 96, is written by its code point).
Ascii ==
  << " ", "!", "\"", "#", "$", "%", "&", "'", "(", ")", "*", "+",
     ",", "-", ".", "/", "0", "1", "2", "3", "4", "5", "6", "7",
     "8", "9", ":", ";", "<", "=", ">", "?", "@", "A", "B", "C",
     "D", "E", "F", "G", "H", "I", "J", "K", "L", "M", "N", "O",
     "P", "Q", "R", "S", "T", "U", "V", "W", "X", "Y", "Z", "[",
     "\\", "]", "^", "_", "U+0060", "a", "b", "c", "d", "e", "f", "g",
     "h", "i", "j", "k", "l", "m", "n", "o", "p", "q", "r", "s",
     "t", "u", "v", "w", "x", "y", "z", "{", "|", "}", "~" >>

\* The character U+FFFD, which TextDecoder substitutes for a byte that is
\* not valid UTF-8.
Replacement == "U+FFFD"

\* The byte that encodes a printable ASCII character (the device's side of
\* the wire: UTF-8 of ASCII text is one byte per character).
CodeOf(c) == 31 + (CHOOSE k \in DOMAIN Ascii : Ascii[k] = c)

\* UTF-8 encoding of an ASCII text.
Utf8(text) == [k \in DOMAIN text |-> CodeOf(text[k])]

\* new TextDecoder().decode(bytes), for printable ASCII bytes and for the
\* byte 0xFF, which is never valid UTF-8 and decodes to U+FFFD.
TextDecode(bytes) ==
  [k \in DOMAIN bytes |->
     IF bytes[k] - 31 \in DOMAIN Ascii THEN Ascii[bytes[k] - 31] ELSE Replacement]

(* ---------------------------------------------------------------------- *)
(* JSON.parse                                                             *)
(* Objects, arrays, strings with the escapes \" \\ \/, integers, true,    *)
(* false and null, with spaces as the only white space.                   *)
(* ---------------------------------------------------------------------- *)

Digits == {"0", "1", "2", "3", "4", "5", "6", "7", "8", "9"}

JNull == [t |-> "null"]
JBool(b) == [t |-> "bool", b |-> b]
JNum(n) == [t |-> "num", n |-> n]
JStr(s) == [t |-> "str", s |-> s]
JArr(a) == [t |-> "arr", a |-> a]
JObj(o) == [t |-> "obj", o |-> o]

\* The object with no members, and the object o with member k set to v
\* (a repeated key keeps the last value).
EmptyMembers == [k \in {} |-> JNull]
PutMember(o, k, v) == [x \in DOMAIN o \cup {k} |-> IF x = k THEN v ELSE o[x]]

ParseFail == [ok |-> FALSE]
ParseOk(v, next) == [ok |-> TRUE, val |-> v, next |-> next]

RECURSIVE SkipWs(_, _)
SkipWs(t, i) == IF i <= Len(t) /\ t[i] = " " THEN SkipWs(t, i + 1) ELSE i

\* The characters of a string literal from position i, after the opening
\* quote, up to the closing quote.
RECURSIVE ParseChars(_, _, _)
ParseChars(t, i, acc) ==
  IF i > Len(t) THEN ParseFail
  ELSE IF t[i] = "\"" THEN ParseOk(acc, i + 1)
  ELSE IF t[i] = "\\"
    THEN IF i + 1 <= Len(t) /\ t[i + 1] \in {"\"", "\\", "/"}
           THEN ParseChars(t, i + 2, acc \o t[i + 1])
           ELSE ParseFail
  ELSE ParseChars(t, i + 1, acc \o t[i])

\* The digits of an integer from position i; acc is the value so far.
RECURSIVE ParseDigits(_, _, _)
ParseDigits(t, i, acc) ==
  IF i <= Len(t) /\ t[i] \in Digits
    THEN ParseDigits(t, i + 1, 10 * acc + (CodeOf(t[i]) - CodeOf("0")))
    ELSE ParseOk(acc, i)

\* An integer at position i: an optional minus, then 0 or a digit string
\* that does not start with 0.
ParseNumber(t, i) ==
  LET neg == t[i] = "-"
      d == IF neg THEN i + 1 ELSE i
  IN IF d > Len(t) \/ t[d] \notin Digits THEN ParseFail
     ELSE LET r == IF t[d] = "0" THEN ParseOk(0, d + 1) ELSE ParseDigits(t, d, 0)
          IN ParseOk(JNum(IF neg THEN 0 - r.val ELSE r.val), r.next)

\* Whether the characters of word stand at position i of t.
LiteralAt(t, i, word) ==
  /\ i + Len(word) - 1 <= Len(t)
  /\ \A k \in DOMAIN word : t[i + k - 1] = word[k]

RECURSIVE ParseValue(_, _), ParseMembers(_, _, _), ParseElements(_, _, _)

ParseValue(t, from) ==
  LET i == SkipWs(t, from) IN
  IF i > Len(t) THEN ParseFail
  ELSE IF t[i] = "{"
    THEN LET j == SkipWs(t, i + 1) IN
         IF j <= Len(t) /\ t[j] = "}" THEN ParseOk(JObj(EmptyMembers), j + 1)
         ELSE ParseMembers(t, j, EmptyMembers)
  ELSE IF t[i] = "["
    THEN LET j == SkipWs(t, i + 1) IN
         IF j <= Len(t) /\ t[j] = "]" THEN ParseOk(JArr(<<>>), j + 1)
         ELSE ParseElements(t, j, <<>>)
  ELSE IF t[i] = "\""
    THEN LET r == ParseChars(t, i + 1, "") IN
         IF r.ok THEN ParseOk(JStr(r.val), r.next) ELSE ParseFail
  ELSE IF t[i] \in Digits \cup {"-"} THEN ParseNumber(t, i)
  ELSE IF LiteralAt(t, i, <<"t", "r", "u", "e">>) THEN ParseOk(JBool(TRUE), i + 4)
  ELSE IF LiteralAt(t, i, <<"f", "a", "l", "s", "e">>) THEN ParseOk(JBool(FALSE), i + 5)
  ELSE IF LiteralAt(t, i, <<"n", "u", "l", "l">>) THEN ParseOk(JNull, i + 4)
  ELSE ParseFail

\* The members of an object from position i, where a key must start.
ParseMembers(t, i, acc) ==
  IF i > Len(t) \/ t[i] # "\"" THEN ParseFail
  ELSE LET k == ParseChars(t, i + 1, "") IN
    IF ~k.ok THEN ParseFail
    ELSE LET c == SkipWs(t, k.next) IN
      IF c > Len(t) \/ t[c] # ":" THEN ParseFail
      ELSE LET v == ParseValue(t, c + 1) IN
        IF ~v.ok THEN ParseFail
        ELSE LET e == SkipWs(t, v.next)
                 o == PutMember(acc, k.val, v.val)
             IN IF e > Len(t) THEN ParseFail
                ELSE IF t[e] = "}" THEN ParseOk(JObj(o), e + 1)
                ELSE IF t[e] = "," THEN ParseMembers(t, SkipWs(t, e + 1), o)
                ELSE ParseFail

\* The elements of an array from position i, where a value must start.
ParseElements(t, i, acc) ==
  LET v == ParseValue(t, i) IN
  IF ~v.ok THEN ParseFail
  ELSE LET e == SkipWs(t, v.next)
           a == Append(acc, v.val)
       IN IF e > Len(t) THEN ParseFail
          ELSE IF t[e] = "]" THEN ParseOk(JArr(a), e + 1)
          ELSE IF t[e] = "," THEN ParseElements(t, e + 1, a)
          ELSE ParseFail

\* JSON.parse(text): [ok |-> TRUE, val |-> value], or [ok |-> FALSE] where
\* JSON.parse raises SyntaxError.
JSONParse(text) ==
  LET r == ParseValue(text, 1) IN
  IF r.ok /\ SkipWs(text, r.next) > Len(text)
    THEN [ok |-> TRUE, val |-> r.val]
    ELSE [ok |-> FALSE]

(* ---------------------------------------------------------------------- *)
(* handleResponse                                                         *)
(* ---------------------------------------------------------------------- *)

\* The value of a property nothing defines.
Undefined == [t |-> "undefined"]

\* v.k for a parsed JSON value v other than null and for the keys the
\* handlers read (type, networks, band_2g): a member of an object, and
\* undefined on an object without it, an array, a string, a number or a
\* boolean.
GetProp(v, k) == IF v.t = "obj" /\ k \in DOMAIN v.o THEN v.o[k] ELSE Undefined

\* Whether v.forEach(f) / v.map(f), with f reading a property of each
\* element, returns normally: v must be an array (anything else has no such
\* method, or is undefined) and no element may be null.
CanIterate(v) == v.t = "arr" /\ \A k \in DOMAIN v.a : v.a[k].t # "null"

\* displayNetworks(networks) raises at networks.forEach.
displayNetworksThrows(networks) == ~CanIterate(networks)

\* displayChannels(data) raises in updateChannelsChart('2g') at
\* channelsData.band_2g.map.
displayChannelsThrows(data) == ~CanIterate(GetProp(data, "band_2g"))

\* The branches of the switch.
Handlers ==
  {"pong", "scan_result", "signal", "channels", "monitor_started",
   "monitor_stopped", "error"}

\* SwitchCase with a default branch that treats every other type as an
\* error message.
SwitchCaseDefaultError(type) ==
  IF type.t = "str" /\ type.s \in Handlers THEN type.s ELSE "error"

\* The case of the switch that response.type selects with ===, or "none".
SwitchCase(type) == IF type.t = "str" /\ type.s \in Handlers THEN type.s ELSE "none"

\* CaseBodies with the break of the pong case missing: control falls into
\* the scan_result case.
CaseBodiesFallThrough(case) ==
  IF case = "none" THEN <<>>
  ELSE IF case = "pong" THEN <<"pong", "scan_result">>
  ELSE <<case>>

\* The case bodies that run once the switch has selected case: every body
\* ends in break, so it is that body alone, and none when no case matched.
CaseBodies(case) == IF case = "none" THEN <<>> ELSE <<case>>

\* handleResponse that reads the type with response?.type, which does not
\* raise on null.
handleResponseNullTolerant(response) ==
  LET case == SwitchCase(GetProp(response, "type")) IN
    [handlers |-> CaseBodies(case),
     threw |-> CASE case = "scan_result" ->
                      displayNetworksThrows(GetProp(response, "networks"))
                 [] case = "channels" -> displayChannelsThrows(response)
                 [] OTHER -> FALSE]

\* handleResponse(response): the handlers that ran, in order (none when no
\* case matched or the call raised before the switch), and whether the call
\* raised.  Reading response.type of null raises TypeError.
handleResponse(response) ==
  IF response.t = "null" THEN [handlers |-> <<>>, threw |-> TRUE]
  ELSE LET case == SwitchCase(GetProp(response, "type")) IN
    [handlers |-> CaseBodies(case),
     threw |-> CASE case = "scan_result" ->
                      displayNetworksThrows(GetProp(response, "networks"))
                 [] case = "channels" -> displayChannelsThrows(response)
                 [] OTHER -> FALSE]

(* ---------------------------------------------------------------------- *)
(* onResponse                                                             *)
(* ---------------------------------------------------------------------- *)

\* chunks = []: the array with no element.
EmptyChunks == [i \in {} |-> <<>>]

\* StoreChunk that keeps the payload already stored at index.
StoreChunkKeepFirst(c, index, data) ==
  [i \in DOMAIN c \cup {index} |-> IF i = index /\ i \notin DOMAIN c THEN data ELSE c[i]]

\* chunks[index] = data on a sparse array: only index becomes populated.
StoreChunk(c, index, data) ==
  [i \in DOMAIN c \cup {index} |-> IF i = index THEN data ELSE c[i]]

\* chunks.length: one more than the largest populated index.
ArrayLength(c) ==
  IF DOMAIN c = {} THEN 0 ELSE 1 + (CHOOSE m \in DOMAIN c : \A i \in DOMAIN c : i <= m)

\* chunks.filter(c => c !== undefined).length: filter skips the holes, and
\* no stored payload is undefined.
ReceivedCount(c) == Cardinality(DOMAIN c)

\* for (const chunk of chunks) visits every index below chunks.length and
\* yields undefined at a hole, where fullData.set(undefined, offset) raises
\* TypeError.
CopyThrows(c) == \E i \in 0 .. ArrayLength(c) - 1 : i \notin DOMAIN c

\* FullData with the payloads copied in descending index order.
RECURSIVE FullDataDownFrom(_, _)
FullDataDownFrom(c, i) == IF i < 0 THEN <<>> ELSE c[i] \o FullDataDownFrom(c, i - 1)
FullDataReversed(c) == FullDataDownFrom(c, ArrayLength(c) - 1)

\* The bytes of fullData when no index is a hole: the payloads in index
\* order, from index i on.
RECURSIVE FullDataFrom(_, _)
FullDataFrom(c, i) == IF i >= ArrayLength(c) THEN <<>> ELSE c[i] \o FullDataFrom(c, i + 1)
FullData(c) == FullDataFrom(c, 0)

\* What a call does besides updating the buffer:
\*   "buffered"     the completion test failed;
\*   "threw"        the completion test passed and copying raised, so the
\*                  exception left onResponse;
\*   "syntaxError"  JSON.parse raised, caught and logged;
\*   "handlerError" handleResponse raised, caught and logged;
\*   "dispatched"   handleResponse returned.
\* text is the argument of JSON.parse (<<>> when it was not called) and
\* handlers the handlers that ran.
Outcome(kind, text, handlers) == [text |-> text, handlers |-> handlers, kind |-> kind]

\* Decode that hands the parsed message to handleResponse twice.
DecodeTwice(text) ==
  LET parsed == JSONParse(text) IN
  IF ~parsed.ok THEN Outcome("syntaxError", text, <<>>)
  ELSE LET h == handleResponse(parsed.val) IN
       Outcome(IF h.threw THEN "handlerError" ELSE "dispatched", text,
               IF h.threw THEN h.handlers ELSE h.handlers \o h.handlers)

\* The try block on the reassembled text.
Decode(text) ==
  LET parsed == JSONParse(text) IN
  IF ~parsed.ok THEN Outcome("syntaxError", text, <<>>)
  ELSE LET h == handleResponse(parsed.val) IN
       Outcome(IF h.threw THEN "handlerError" ELSE "dispatched", text, h.handlers)

\* ResetOnFirst that sets expectedChunks and keeps the buffer.
ResetOnFirstKeepsChunks(c, expected, index, total) ==
  IF index = 0 THEN [chunks |-> c, expectedChunks |-> total]
  ELSE [chunks |-> c, expectedChunks |-> expected]

\* ResetOnFirst that also starts a new message when a fragment announces
\* another total than the one expected.
ResetOnFirstOrNewTotal(c, expected, index, total) ==
  IF index = 0 \/ total # expected
    THEN [chunks |-> EmptyChunks, expectedChunks |-> total]
    ELSE [chunks |-> c, expectedChunks |-> expected]

\* ResetOnFirst that starts a new message only when none is expected.
ResetOnFirstWhenIdle(c, expected, index, total) ==
  IF index = 0 /\ expected = 0 THEN [chunks |-> EmptyChunks, expectedChunks |-> total]
  ELSE [chunks |-> c, expectedChunks |-> expected]

\* `if (chunkIndex === 0) { chunks = []; expectedChunks = totalChunks; }`
ResetOnFirst(c, expected, index, total) ==
  IF index = 0 THEN [chunks |-> EmptyChunks, expectedChunks |-> total]
  ELSE [chunks |-> c, expectedChunks |-> expected]

\* IsComplete that is one fragment early.
IsCompleteOffByOne(c, expected) == ReceivedCount(c) + 1 = expected

\* IsComplete that passes once at least expectedChunks payloads are stored.
IsCompleteAtLeast(c, expected) == ReceivedCount(c) >= expected

\* IsComplete that compares chunks.length, which counts the holes too.
IsCompleteByLength(c, expected) == ArrayLength(c) = expected

\* `if (receivedCount === expectedChunks)`
IsComplete(c, expected) == ReceivedCount(c) = expected

\* ResetAfter with the reset inside the try block, skipped when JSON.parse
\* raises.
ResetAfterUnlessSyntaxError(c, expected, decoded) ==
  IF decoded.kind = "syntaxError"
    THEN [chunks |-> c, expectedChunks |-> expected, outcome |-> decoded]
    ELSE [chunks |-> EmptyChunks, expectedChunks |-> 0, outcome |-> decoded]

\* ResetAfter with the reset at the end of the try block, skipped when
\* handleResponse raises.
ResetAfterUnlessHandlerError(c, expected, decoded) ==
  IF decoded.kind = "handlerError"
    THEN [chunks |-> c, expectedChunks |-> expected, outcome |-> decoded]
    ELSE [chunks |-> EmptyChunks, expectedChunks |-> 0, outcome |-> decoded]

\* The lines after the try statement (`chunks = []; expectedChunks = 0;`),
\* reached whether the try block returned or its catch clause ran.
ResetAfter(c, expected, decoded) ==
  [chunks |-> EmptyChunks, expectedChunks |-> 0, outcome |-> decoded]

\* onResponse on a notification [index, total, payload...] in the state
\* (c, expected): the new chunks and expectedChunks, and the outcome.
onResponse(c, expected, frag) ==
  LET first == ResetOnFirst(c, expected, frag.index, frag.total)
      stored == StoreChunk(first.chunks, frag.index, frag.payload)
  IN IF ~IsComplete(stored, first.expectedChunks)
       THEN [chunks |-> stored, expectedChunks |-> first.expectedChunks,
             outcome |-> Outcome("buffered", <<>>, <<>>)]
     ELSE IF CopyThrows(stored)
       THEN [chunks |-> stored, expectedChunks |-> first.expectedChunks,
             outcome |-> Outcome("threw", <<>>, <<>>)]
     ELSE ResetAfter(stored, first.expectedChunks,
                     Decode(TextDecode(FullData(stored))))

(* ---------------------------------------------------------------------- *)
(* sendCommand                                                            *)
(* ---------------------------------------------------------------------- *)

\* sendCommandWrites without the `if (!commandChar)` guard.
sendCommandWritesUngated(char) == 1

\* The number of commandChar.writeValue calls one sendCommand call makes:
\* none when commandChar is null (it logs and returns), else one.
sendCommandWrites(char) == IF char THEN 1 ELSE 0

\* sendCommandSettles with the await wrapped in a try statement whose catch
\* clause only logs.
sendCommandSwallows(written) == "resolved"

\* How the promise sendCommand returned settles once the promise of
\* writeValue has: `await commandChar.writeValue(...)` is the last statement
\* and is inside no try statement, so a rejection rejects it.
sendCommandSettles(written) == written

(* ---------------------------------------------------------------------- *)
(* The device: the notifications it can send                              *)
(* ---------------------------------------------------------------------- *)

Quoted(chars) == <<"\"">> \o chars \o <<"\"">>
Member(key, value) == Quoted(key) \o <<":">> \o value
Object1(m) == <<"{">> \o m \o <<"}">>
Object2(m, n) == <<"{">> \o m \o <<",">> \o n \o <<"}">>
Object3(m, n, o) == <<"{">> \o m \o <<",">> \o n \o <<",">> \o o \o <<"}">>

KeyType == <<"t", "y", "p", "e">>
TypeIs(name) == Member(KeyType, Quoted(name))

NamePong == <<"p", "o", "n", "g">>
NameScanResult == <<"s", "c", "a", "n", "_", "r", "e", "s", "u", "l", "t">>
NameSignal == <<"s", "i", "g", "n", "a", "l">>
NameChannels == <<"c", "h", "a", "n", "n", "e", "l", "s">>
NameMonitorStarted ==
  <<"m", "o", "n", "i", "t", "o", "r", "_", "s", "t", "a", "r", "t", "e", "d">>
NameMonitorStopped ==
  <<"m", "o", "n", "i", "t", "o", "r", "_", "s", "t", "o", "p", "p", "e", "d">>
NameError == <<"e", "r", "r", "o", "r">>
NameUnsupported == <<"u", "n", "s", "u", "p", "p", "o", "r", "t", "e", "d", "_", "x">>

EmptyArray == <<"[", "]">>

\* {"type":"pong"}
TextPong == Object1(TypeIs(NamePong))
\* {"type":"scan_result","networks":[]}
TextScanResult ==
  Object2(TypeIs(NameScanResult),
          Member(<<"n", "e", "t", "w", "o", "r", "k", "s">>, EmptyArray))
\* {"type":"scan_result"}
TextScanNoNetworks == Object1(TypeIs(NameScanResult))
\* {"type":"signal","rssi":-60}
TextSignal ==
  Object2(TypeIs(NameSignal), Member(<<"r", "s", "s", "i">>, <<"-", "6", "0">>))
\* {"type":"channels","band_2g":[],"band_5g":[]}
TextChannels ==
  Object3(TypeIs(NameChannels),
          Member(<<"b", "a", "n", "d", "_", "2", "g">>, EmptyArray),
          Member(<<"b", "a", "n", "d", "_", "5", "g">>, EmptyArray))
\* {"type":"monitor_started","ssid":"x"}
TextMonitorStarted ==
  Object2(TypeIs(NameMonitorStarted), Member(<<"s", "s", "i", "d">>, Quoted(<<"x">>)))
\* {"type":"monitor_stopped"}
TextMonitorStopped == Object1(TypeIs(NameMonitorStopped))
\* {"type":"error","message":"x"}
TextError ==
  Object2(TypeIs(NameError),
          Member(<<"m", "e", "s", "s", "a", "g", "e">>, Quoted(<<"x">>)))
\* {"type":"unsupported_x"}
TextUnsupported == Object1(TypeIs(NameUnsupported))
\* {"type":1}
TextTypeNumber == Object1(Member(KeyType, <<"1">>))
\* {}
TextNoType == <<"{", "}">>
\* null
TextNull == <<"n", "u", "l", "l">>

\* Whole messages, each sent as the single fragment of a message of one
\* fragment; the last is the byte 0xFF, which is not UTF-8.
Messages ==
  {Utf8(m) : m \in {TextPong, TextScanResult, TextScanNoNetworks, TextSignal,
                    TextChannels, TextMonitorStarted, TextMonitorStopped,
                    TextError, TextUnsupported, TextTypeNumber, TextNoType,
                    TextNull}}
  \cup {<<255>>}

\* The payloads of the fragments of longer messages: {"typ and e":"pong"}
\* (together {"type":"pong"}), and a space, which JSON allows around a value.
PieceHead == Utf8(<<"{", "\"", "t", "y", "p">>)
PieceTail == Utf8(<<"e", "\"", ":", "\"", "p", "o", "n", "g", "\"", "}">>)
PieceSpace == Utf8(<<" ">>)
Pieces == {PieceHead, PieceTail, PieceSpace}

Fragment(index, total, payload) ==
  [index |-> index, total |-> total, payload |-> payload]

\* The notifications: every header over the pieces, and the whole messages.
Fragments ==
  {Fragment(i, n, p) : i \in 0 .. MaxIndex, n \in 0 .. MaxTotal, p \in Pieces}
  \cup {Fragment(0, 1, m) : m \in Messages}

(* ---------------------------------------------------------------------- *)
(* State                                                                  *)
(* ---------------------------------------------------------------------- *)

VARIABLES
  chunks,          \* the sparse array chunks: populated index -> payload
  expectedChunks,  \* expectedChunks
  event,           \* the notification of the last onResponse call
  outcome,         \* what the last onResponse call did
  \* Observers of the sequence of calls; onResponse reads none of them.
  run,             \* the fragments of the last calls, while they are the
                   \* fragments 0, 1, 2, ... of one message in index order
  runFrom,         \* the state in which the first fragment of run arrived
  firstRepeats,    \* how often in a row that first fragment was delivered
  orphan,          \* progress of: idle, then index 1 of 2, then index 0 of 2
  redelivered,     \* a populated index >= 1 of the message in progress was
                   \* delivered again
  arrival,         \* the fragments of the last calls, while they are fragment
                   \* 0 of a message and then fragments of it with distinct
                   \* indices 1 .. total - 1, in any order
  \* The connection.
  device,             \* device is set and onDisconnected listens on it
  commandChar,        \* commandChar is not null
  listening,          \* onResponse listens on a response characteristic
  connectBtnDisabled, \* connectBtn.disabled
  connected,          \* the controls are shown: the last setConnected was
                      \* setConnected(true)
  connectPc,          \* where the connect call in progress waits, or "idle"
  pendingWrites,      \* the writeValue promises not settled yet
  sendResult,         \* how the sendCommand call that returned or settled
                      \* last ended for its caller
  op                  \* the handler or continuation that ran last

vars ==
  <<chunks, expectedChunks, event, outcome, run, runFrom, firstRepeats,
    orphan, redelivered, arrival, device, commandChar, listening,
    connectBtnDisabled, connected, connectPc, pendingWrites, sendResult, op>>

\* What onResponse and its observers keep, and what the connection keeps.
reassemblyVars ==
  <<chunks, expectedChunks, event, outcome, run, runFrom, firstRepeats,
    orphan, redelivered, arrival>>
linkVars ==
  <<device, commandChar, listening, connectBtnDisabled, connected, connectPc,
    pendingWrites, sendResult>>

NoEvent == Fragment(-1, 0, <<>>)
NoOrphan == [payload |-> <<>>, stage |-> 0]

\* No message is in progress and nothing is buffered: the state after
\* construction and after every reset.
Idle(c, expected) == c = EmptyChunks /\ expected = 0

\* A message is in progress: its first fragment arrived, and every fragment
\* stored since has an index below its total.
InProgress(c, expected) ==
  /\ expected >= 1
  /\ 0 \in DOMAIN c
  /\ DOMAIN c \subseteq 0 .. expected - 1

InitReassembly ==
  /\ chunks = EmptyChunks
  /\ expectedChunks = 0
  /\ event = NoEvent
  /\ outcome = Outcome("none", <<>>, <<>>)
  /\ run = <<>>
  /\ runFrom = "none"
  /\ firstRepeats = 0
  /\ orphan = NoOrphan
  /\ redelivered = FALSE
  /\ arrival = <<>>

\* The state once the script has loaded: nothing is connected.
Init ==
  /\ InitReassembly
  /\ device = FALSE
  /\ commandChar = FALSE
  /\ listening = FALSE
  /\ connectBtnDisabled = FALSE
  /\ connected = FALSE
  /\ connectPc = "idle"
  /\ pendingWrites = 0
  /\ sendResult = "none"
  /\ op = "none"

\* The state once the first connect call has run to its end: onResponse
\* listens, the ping has been written and no fragment has arrived yet.
Subscribed ==
  /\ InitReassembly
  /\ device = TRUE
  /\ commandChar = TRUE
  /\ listening = TRUE
  /\ connectBtnDisabled = TRUE
  /\ connected = TRUE
  /\ connectPc = "idle"
  /\ pendingWrites = 0
  /\ sendResult = "resolved"
  /\ op = "writeResolved"

\* run after the fragment f: f starts a run when its index is 0 and extends
\* it when it is the next index of the same message.
RunAfter(f) ==
  IF f.index = 0 THEN <<f>>
  ELSE IF /\ run # <<>>
          /\ Len(run) < run[1].total
          /\ f.index = Len(run)
          /\ f.total = run[1].total
    THEN Append(run, f)
    ELSE <<>>

\* arrival after the fragment f: f starts an arrival when its index is 0
\* and extends it when it is a fragment of the same message that has not
\* been delivered yet.
ArrivalAfter(f) ==
  IF f.index = 0 THEN <<f>>
  ELSE IF /\ arrival # <<>>
          /\ Len(arrival) < arrival[1].total
          /\ f.total = arrival[1].total
          /\ f.index \in 1 .. f.total - 1
          /\ \A k \in DOMAIN arrival : arrival[k].index # f.index
    THEN Append(arrival, f)
    ELSE <<>>

\* One onResponse call, with the notification f.
Deliver(f) ==
  \E r \in {onResponse(chunks, expectedChunks, f)} :
  /\ op' = "onResponse"
  /\ UNCHANGED linkVars
  /\ chunks' = r.chunks
  /\ expectedChunks' = r.expectedChunks
  /\ outcome' = r.outcome
  /\ event' = f
  /\ run' = RunAfter(f)
  /\ runFrom' =
       IF f.index = 0
         THEN IF outcome.kind = "syntaxError" THEN "failure"
              ELSE IF chunks # EmptyChunks THEN "partial"
              ELSE "clean"
       ELSE IF RunAfter(f) # <<>> THEN runFrom
       ELSE "none"
  /\ firstRepeats' =
       IF f.index = 0
         THEN IF event = f /\ firstRepeats >= 1 THEN 2 ELSE 1
       ELSE IF RunAfter(f) # <<>> THEN firstRepeats
       ELSE 0
  /\ orphan' =
       IF Idle(chunks, expectedChunks) /\ f.index = 1 /\ f.total = 2
         THEN [payload |-> f.payload, stage |-> 1]
       ELSE IF orphan.stage = 1 /\ f.index = 0 /\ f.total = 2
         THEN [payload |-> orphan.payload, stage |-> 2]
       ELSE NoOrphan
  /\ redelivered' =
       /\ f.index # 0
       /\ InProgress(chunks, expectedChunks)
       /\ (redelivered \/ f.index \in DOMAIN chunks)
  /\ arrival' = ArrivalAfter(f)

\* OnResponse that waits until no write is in flight.
OnResponseAfterWrites(f) == listening /\ pendingWrites = 0 /\ Deliver(f)

\* The characteristicvaluechanged event with the notification f: the
\* listener of line 102 is called as soon as the event is dispatched,
\* whatever else is awaited.
OnResponse(f) == listening /\ Deliver(f)

\* setConnected(false)
SetDisconnected ==
  /\ connected' = FALSE
  /\ connectBtnDisabled' = FALSE

\* A click on connectBtn, up to `await navigator.bluetooth.requestDevice`.
\* The model follows one connect call at a time.
ConnectClicked ==
  /\ ~connectBtnDisabled
  /\ connectPc = "idle"
  /\ connectBtnDisabled' = TRUE
  /\ connectPc' = "requestDevice"
  /\ op' = "connect"
  /\ UNCHANGED <<device, commandChar, listening, connected, pendingWrites,
                 sendResult>>
  /\ UNCHANGED reassemblyVars

\* requestDevice resolved: lines 86-91, up to `await device.gatt.connect()`.
ConnectDeviceChosen ==
  /\ connectPc = "requestDevice"
  /\ device' = TRUE
  /\ connectPc' = "gatt"
  /\ op' = "connect"
  /\ UNCHANGED <<commandChar, listening, connectBtnDisabled, connected,
                 pendingWrites, sendResult>>
  /\ UNCHANGED reassemblyVars

\* gatt.connect, getPrimaryService and getCharacteristic(COMMAND_UUID)
\* resolved: lines 92-98, up to the awaits of the response characteristic
\* and of startNotifications.
ConnectCommandChar ==
  /\ connectPc = "gatt"
  /\ commandChar' = TRUE
  /\ connectPc' = "subscribe"
  /\ op' = "connect"
  /\ UNCHANGED <<device, listening, connectBtnDisabled, connected,
                 pendingWrites, sendResult>>
  /\ UNCHANGED reassemblyVars

\* getCharacteristic(RESPONSE_UUID) and startNotifications resolved: lines
\* 102-110, which add the listener, call setConnected(true) and call
\* sendCommand({cmd: 'ping'}) up to its await of writeValue.
ConnectSubscribed ==
  /\ connectPc = "subscribe"
  /\ pendingWrites + sendCommandWrites(commandChar) <= MaxPending
  /\ listening' = TRUE
  /\ connected' = TRUE
  /\ pendingWrites' = pendingWrites + sendCommandWrites(commandChar)
  /\ connectPc' = "ping"
  /\ op' = "connect"
  /\ UNCHANGED <<device, commandChar, connectBtnDisabled, sendResult>>
  /\ UNCHANGED reassemblyVars

\* A promise connect awaits before the ping was rejected (the chooser was
\* dismissed, the device went out of range, ...): the catch clause logs and
\* calls setConnected(false).
ConnectFailed ==
  /\ connectPc \in {"requestDevice", "gatt", "subscribe"}
  /\ SetDisconnected
  /\ connectPc' = "idle"
  /\ op' = "connectFailed"
  /\ UNCHANGED <<device, commandChar, listening, pendingWrites, sendResult>>
  /\ UNCHANGED reassemblyVars

\* The gattserverdisconnected event.
OnDisconnected ==
  /\ device
  /\ SetDisconnected
  /\ op' = "onDisconnected"
  /\ UNCHANGED <<device, commandChar, listening, connectPc, pendingWrites,
                 sendResult>>
  /\ UNCHANGED reassemblyVars

\* A sendCommand call from scanNetworks, analyzeChannels, startMonitor or
\* stopMonitor, up to its return or its await of writeValue.
SendCommand ==
  /\ pendingWrites + sendCommandWrites(commandChar) <= MaxPending
  /\ pendingWrites' = pendingWrites + sendCommandWrites(commandChar)
  /\ sendResult' = IF sendCommandWrites(commandChar) = 0 THEN "returned"
                   ELSE sendResult
  /\ op' = "sendCommand"
  /\ UNCHANGED <<device, commandChar, listening, connectBtnDisabled,
                 connected, connectPc>>
  /\ UNCHANGED reassemblyVars

\* How the transport ends a write.
WriteOutcomes == {"resolved", "rejected"}

\* The writeValue promise of a sendCommand call settles as written.  The
\* call was made by connect (its ping, which connect awaits inside its try
\* statement) or by one of the other callers.
WriteSettled(caller, written) ==
  /\ pendingWrites >= 1
  /\ IF caller = "connect" THEN connectPc = "ping"
      ELSE pendingWrites >= 1 + (IF connectPc = "ping" THEN 1 ELSE 0)
  /\ pendingWrites' = pendingWrites - 1
  /\ sendResult' = sendCommandSettles(written)
  /\ op' = IF written = "rejected" THEN "writeRejected" ELSE "writeResolved"
  /\ IF caller = "connect"
       THEN /\ connectPc' = "idle"
            /\ IF sendCommandSettles(written) = "rejected"
                 THEN SetDisconnected
                 ELSE UNCHANGED <<connected, connectBtnDisabled>>
       ELSE UNCHANGED <<connected, connectBtnDisabled, connectPc>>
  /\ UNCHANGED <<device, commandChar, listening>>
  /\ UNCHANGED reassemblyVars

\* The reassembler alone: notifications and nothing else, from the state in
\* which connect has subscribed.
Next == \E f \in Fragments : OnResponse(f)

Spec == Subscribed /\ [][Next]_vars

\* The notifications of the program as a whole: the two fragments of
\* {"type":"pong"}, a fragment of index 1 with another payload, and the
\* message whole.
LinkFragments ==
  {Fragment(0, 2, PieceHead), Fragment(1, 2, PieceTail),
   Fragment(1, 2, PieceSpace), Fragment(0, 1, Utf8(TextPong))}

\* The program as a whole, from the loaded script on.
NextLink ==
  \/ ConnectClicked
  \/ ConnectDeviceChosen
  \/ ConnectCommandChar
  \/ ConnectSubscribed
  \/ ConnectFailed
  \/ OnDisconnected
  \/ SendCommand
  \/ \E caller \in {"connect", "ui"}, written \in WriteOutcomes :
       WriteSettled(caller, written)
  \/ \E f \in LinkFragments : OnResponse(f)

SpecLink == Init /\ [][NextLink]_vars

(* ---------------------------------------------------------------------- *)
(* Properties                                                             *)
(* ---------------------------------------------------------------------- *)

\* The outcomes in which the reassembled text reached JSON.parse.
Parsed == {"syntaxError", "handlerError", "dispatched"}

\* The concatenation of a sequence of byte sequences.
RECURSIVE Flatten(_)
Flatten(seqs) == IF seqs = <<>> THEN <<>> ELSE Head(seqs) \o Flatten(Tail(seqs))

\* The payloads of the fragments of run, in index order.
RunPayloads == [k \in DOMAIN run |-> run[k].payload]

\* run is every fragment of a message of at least one fragment.
RunComplete == run # <<>> /\ run[1].total >= 1 /\ Len(run) = run[1].total

\* C1 Round trip: whatever the state in which fragment 0 arrives, the
\* fragments 0..total-1 of a message of total >= 1 fragments delivered in
\* index order are only buffered before the last one, and on the last one
\* the text passed to JSON.parse is the payloads concatenated in index
\* order (for total = 1, on the only fragment).
C1_RoundTrip ==
  (run # <<>> /\ run[1].total >= 1) =>
    IF Len(run) = run[1].total
      THEN /\ outcome.kind \in Parsed
           /\ outcome.text = TextDecode(Flatten(RunPayloads))
      ELSE outcome.kind = "buffered"

\* A message of three fragments, begun on a buffer that was not empty, was
\* completed and dispatched.
C1_Witness ==
  /\ RunComplete
  /\ Len(run) = 3
  /\ runFrom = "partial"
  /\ outcome.kind = "dispatched"

\* C2 as claimed: from idle, fragment 1 of 2 with payload B and then
\* fragment 0 of 2 with payload A complete the message as A followed by B.
C2_OutOfOrderCompletes ==
  orphan.stage = 2 =>
    /\ outcome.kind \in Parsed
    /\ outcome.text = TextDecode(event.payload \o orphan.payload)

\* C2 amended: from idle, fragment 1 of 2 and then fragment 0 of 2 do not
\* complete the message: fragment 0 discards the payload that came before
\* it, and the reassembler holds only the payload of fragment 0 and waits
\* for two fragments.
C2_FirstFragmentDiscardsEarlier ==
  orphan.stage = 2 =>
    /\ outcome.kind = "buffered"
    /\ chunks = (0 :> event.payload)
    /\ expectedChunks = 2

\* From idle, e":"pong"} arrived as fragment 1 of 2 and then {"typ as
\* fragment 0 of 2.
C2_Witness ==
  /\ orphan.stage = 2
  /\ orphan.payload = PieceTail
  /\ event = Fragment(0, 2, PieceHead)

\* C3 Abandonment: a fragment with index 0 that arrives while the buffer
\* holds payloads of an incomplete message leaves none of them: the call
\* emits nothing for the abandoned message (it only buffers, or, when the
\* new message has a single fragment, parses that fragment alone), the
\* reassembler then expects the new total, and the message completed by the
\* in-order fragments that follow is the concatenation of their payloads.
C3_Abandonment ==
  [][/\ (chunks # EmptyChunks /\ event'.index = 0) =>
          IF event'.total = 1
            THEN /\ outcome'.kind \in Parsed
                 /\ outcome'.text = TextDecode(event'.payload)
                 /\ Idle(chunks', expectedChunks')
            ELSE /\ outcome' = Outcome("buffered", <<>>, <<>>)
                 /\ chunks' = (0 :> event'.payload)
                 /\ expectedChunks' = event'.total
     /\ (runFrom' = "partial" /\ RunComplete') =>
          /\ outcome'.kind \in Parsed
          /\ outcome'.text = TextDecode(Flatten(RunPayloads'))
    ]_vars

\* A message of two or more fragments whose first fragment abandoned an
\* incomplete message was completed and dispatched.
C3_Witness ==
  /\ runFrom = "partial"
  /\ RunComplete
  /\ Len(run) >= 2
  /\ outcome.kind = "dispatched"

\* chunks with the payload at index replaced (or added) and nothing else
\* changed.
WithPayload(c, index, payload) ==
  [i \in DOMAIN c \cup {index} |-> IF i = index THEN payload ELSE c[i]]

\* C4 as claimed: delivering again any populated index i of the message in
\* progress, i = 0 included, replaces only the payload at i.
C4_RedeliveryAnyIndex ==
  [][(/\ InProgress(chunks, expectedChunks)
      /\ event'.index \in DOMAIN chunks
      /\ event'.total = expectedChunks) =>
        /\ chunks' = WithPayload(chunks, event'.index, event'.payload)
        /\ expectedChunks' = expectedChunks
        /\ outcome'.kind = "buffered"
    ]_vars

\* C4 amended: for every index 1 <= i < total of the message in progress, a
\* fragment i, delivered for the first time or again, sets only the payload
\* at i and leaves every other populated index as it was; the message
\* completes on the call after which every index 0..total-1 is populated,
\* with the last payload delivered at each index, and the reassembler is
\* idle afterwards.  (Delivering index 0 again discards the other indices.)
C4_RedeliveryAfterFirst ==
  [][(/\ InProgress(chunks, expectedChunks)
      /\ event'.index \in 1 .. expectedChunks - 1
      /\ event'.total = expectedChunks) =>
        LET filled == WithPayload(chunks, event'.index, event'.payload) IN
        IF DOMAIN filled = 0 .. expectedChunks - 1
          THEN /\ outcome'.kind \in Parsed
               /\ outcome'.text =
                    TextDecode(Flatten([k \in 1 .. expectedChunks |-> filled[k - 1]]))
               /\ Idle(chunks', expectedChunks')
          ELSE /\ outcome'.kind = "buffered"
               /\ chunks' = filled
               /\ expectedChunks' = expectedChunks
    ]_vars

\* A message in which an index >= 1 was delivered twice was completed and
\* dispatched.
C4_Witness ==
  /\ redelivered
  /\ event.index >= 1
  /\ outcome.kind = "dispatched"

\* C5 Duplicate first fragment: after fragment 0 of 2 was delivered twice
\* in a row the message is not complete and the reassembler waits for
\* fragment 1 with the payload of fragment 0 stored once; when fragment 1
\* follows, the reassembled text is the payload of fragment 0 followed by
\* that of fragment 1, and no longer than the two together.
C5_DuplicateFirst ==
  (firstRepeats = 2 /\ run # <<>> /\ run[1].total = 2) =>
    IF Len(run) = 1
      THEN /\ outcome.kind = "buffered"
           /\ chunks = (0 :> run[1].payload)
           /\ expectedChunks = 2
      ELSE /\ outcome.kind \in Parsed
           /\ outcome.text = TextDecode(run[1].payload \o run[2].payload)
           /\ Len(outcome.text) = Len(run[1].payload) + Len(run[2].payload)

\* Fragment 0 of 2 was delivered twice, then fragment 1 of 2, and the
\* message was dispatched.
C5_Witness ==
  /\ firstRepeats = 2
  /\ RunComplete
  /\ Len(run) = 2
  /\ outcome.kind = "dispatched"

\* C6 No exception leaves onResponse, whatever the headers of the
\* fragments.
C6_NoExceptionEscapes == outcome.kind # "threw"

\* C7 Return to idle: a call in which the completion test passed ends with
\* the buffer empty and expectedChunks = 0.
C7_ReturnToIdle ==
  outcome.kind \in Parsed \cup {"threw"} => Idle(chunks, expectedChunks)

\* C8 Decode failure isolation: when the reassembled text is not JSON the
\* error is logged, no handler runs and the reassembler is idle; the
\* message whose fragments follow in order, fragment 0 first, is parsed and
\* dispatched as that message alone would be.
C8_DecodeFailureIsolation ==
  /\ outcome.kind = "syntaxError" =>
       /\ outcome.handlers = <<>>
       /\ ~JSONParse(outcome.text).ok
       /\ Idle(chunks, expectedChunks)
  /\ (runFrom = "failure" /\ RunComplete) =>
       outcome = Decode(TextDecode(Flatten(RunPayloads)))

\* The message of two fragments that followed a decode failure was
\* dispatched.
C8_Witness ==
  /\ runFrom = "failure"
  /\ RunComplete
  /\ Len(run) = 2
  /\ outcome.kind = "dispatched"

\* C9 The buffer holds payloads only while a message is in progress: when
\* expectedChunks = 0 no index of chunks is populated.
C9_BufferOnlyInProgress == expectedChunks = 0 => chunks = EmptyChunks

\* The string value of the type member of the JSON text, "" without one.
TypeOfText(text) ==
  LET parsed == JSONParse(text) IN
  IF /\ parsed.ok
     /\ parsed.val.t = "obj"
     /\ "type" \in DOMAIN parsed.val.o
     /\ parsed.val.o["type"].t = "str"
    THEN parsed.val.o["type"].s
    ELSE ""

\* C10 Dispatch: a decoded message whose type is one of the seven handled
\* values runs the handler of that type and no other; a message of type
\* error runs the error handler and counts as dispatched, not as a decode
\* failure; and the fragments [0,2,{"typ] and [1,2,e":"pong"}] end in the
\* pong handler running once.
C10_Dispatch ==
  /\ (outcome.kind \in Parsed /\ TypeOfText(outcome.text) \in Handlers) =>
       /\ outcome.kind # "syntaxError"
       /\ outcome.handlers = <<TypeOfText(outcome.text)>>
  /\ (outcome.kind \in Parsed /\ TypeOfText(outcome.text) = "error") =>
       outcome.kind = "dispatched"
  /\ run = <<Fragment(0, 2, PieceHead), Fragment(1, 2, PieceTail)>> =>
       outcome = Outcome("dispatched", TextPong, <<"pong">>)

\* The two fragments of {"type":"pong"} arrived and the pong handler ran.
C10_Witness ==
  /\ run = <<Fragment(0, 2, PieceHead), Fragment(1, 2, PieceTail)>>
  /\ outcome.handlers = <<"pong">>

\* The value JSON.parse returned for the text of the last call, when it
\* returned one.
ParsedValue == JSONParse(outcome.text).val

\* The text of the last call is valid JSON.
ValidJson == outcome.kind \in Parsed /\ JSONParse(outcome.text).ok

\* C11 Unknown type: a decoded message whose type is a string other than
\* the seven handled values runs no handler, raises no exception (the call
\* counts as dispatched, with nothing logged as an error) and leaves the
\* reassembler idle.
C11_UnknownType ==
  (/\ ValidJson
   /\ TypeOfText(outcome.text) # ""
   /\ TypeOfText(outcome.text) \notin Handlers) =>
    /\ outcome.kind = "dispatched"
    /\ outcome.handlers = <<>>
    /\ Idle(chunks, expectedChunks)

\* The message {"type":"unsupported_x"} arrived whole.
C11_Witness ==
  /\ event = Fragment(0, 1, Utf8(TextUnsupported))
  /\ outcome = Outcome("dispatched", TextUnsupported, <<>>)

\* C12 as stated: a reassembled message that is valid JSON and has no
\* recognized type ends in a reported error, as invalid JSON does.
C12_NoTypeIsDecodeError ==
  (ValidJson /\ TypeOfText(outcome.text) \notin Handlers) =>
    outcome.kind \in {"syntaxError", "handlerError"}

\* C12 amended: a reassembled message that is valid JSON and has no
\* recognized type is not a decode error.  Any value other than null is
\* handed to handleResponse, which runs no handler and reports nothing: the
\* message is dropped silently, unlike invalid JSON.  Only the value null
\* ends in a reported error, because reading its type raises inside the try
\* block.
C12_NoTypeIsDropped ==
  (ValidJson /\ TypeOfText(outcome.text) \notin Handlers) =>
    /\ outcome.handlers = <<>>
    /\ outcome.kind = IF ParsedValue.t = "null" THEN "handlerError" ELSE "dispatched"

\* The message {} arrived whole and was dropped without an error.
C12_Witness ==
  /\ event = Fragment(0, 1, Utf8(TextNoType))
  /\ outcome = Outcome("dispatched", TextNoType, <<>>)

\* The reassembly a fragment f joins when it arrives in the state
\* (c, expected): the number of fragments announced, the indices populated
\* once f is stored, and the payload at each of them.
AnnouncedWith(expected, f) == IF f.index = 0 THEN f.total ELSE expected
IndicesWith(c, f) == (IF f.index = 0 THEN {} ELSE DOMAIN c) \cup {f.index}
PayloadWith(c, f, i) == IF i = f.index THEN f.payload ELSE c[i]

\* With f every fragment 0 .. n - 1 of a message of n >= 1 fragments is
\* there and nothing else.
CompletesWith(c, expected, f) ==
  /\ AnnouncedWith(expected, f) >= 1
  /\ IndicesWith(c, f) = 0 .. AnnouncedWith(expected, f) - 1

\* The text of the message f completes: its payloads in index order.
TextWith(c, expected, f) ==
  TextDecode(Flatten([k \in 1 .. AnnouncedWith(expected, f) |->
                        PayloadWith(c, f, k - 1)]))

\* The outcomes in which handleResponse was called.
Dispatched == {"handlerError", "dispatched"}

\* C14 Dispatch order: a fragment event hands at most one message to
\* handleResponse and runs at most one handler; the message it hands over
\* is the one this fragment completed, provided its text is valid JSON, and
\* it is handed over inside this call, before any later fragment is
\* processed, after which the buffer is empty, so no message is dispatched
\* twice and messages are dispatched in the order of their final fragments.
\* A call that completes no valid message dispatches nothing.
C14_DispatchOrder ==
  [][IF CompletesWith(chunks, expectedChunks, event')
       THEN /\ outcome'.kind \in Parsed
            /\ outcome'.text = TextWith(chunks, expectedChunks, event')
            /\ IF JSONParse(outcome'.text).ok
                 THEN /\ outcome'.kind \in Dispatched
                      /\ Len(outcome'.handlers) <= 1
                      /\ Idle(chunks', expectedChunks')
                 ELSE /\ outcome'.kind \notin Dispatched
                      /\ outcome'.handlers = <<>>
       ELSE /\ outcome'.kind \notin Dispatched
            /\ outcome'.handlers = <<>>]_vars

\* The second fragment of a message that started on an empty buffer has
\* completed it, and the message has just been dispatched.
C14_Witness ==
  /\ runFrom = "clean"
  /\ Len(run) = 2
  /\ outcome = Outcome("dispatched", TextPong, <<"pong">>)

\* t begins with p.
StartsWith(t, p) == Len(p) <= Len(t) /\ SubSeq(t, 1, Len(p)) = p

\* C17 A message reaches JSON.parse and handleResponse only when the
\* populated indices are exactly 0 .. expectedChunks - 1 with
\* expectedChunks >= 1.  When the count of populated indices equals
\* expectedChunks while one of them is >= expectedChunks, an index below it
\* is a hole, the copy raises before decoding, nothing is dispatched and
\* the buffer is kept.  So every dispatched message begins with the payload
\* of a fragment of index 0.
C17_OnlyContiguousDecoded ==
  [][/\ (outcome'.kind \in Parsed) =>
          /\ CompletesWith(chunks, expectedChunks, event')
          /\ outcome'.text = TextWith(chunks, expectedChunks, event')
     /\ (/\ Cardinality(IndicesWith(chunks, event')) =
               AnnouncedWith(expectedChunks, event')
         /\ \E i \in IndicesWith(chunks, event') :
               i >= AnnouncedWith(expectedChunks, event')) =>
          /\ \E i \in IndicesWith(chunks, event') :
                \E h \in 0 .. i - 1 : h \notin IndicesWith(chunks, event')
          /\ outcome' = Outcome("threw", <<>>, <<>>)
          /\ DOMAIN chunks' = IndicesWith(chunks, event')
     /\ (outcome'.kind \in Dispatched) =>
          /\ 0 \in IndicesWith(chunks, event')
          /\ StartsWith(outcome'.text,
                        TextDecode(PayloadWith(chunks, event', 0)))]_vars

\* Two payloads are stored for a message of two fragments, one of them at
\* index 2, and the copy raised.
C17_Witness ==
  /\ outcome.kind = "threw"
  /\ expectedChunks = 2
  /\ DOMAIN chunks = {0, 2}

\* The payloads of the fragments of a complete arrival, in index order.
ArrivalPayloads ==
  [k \in DOMAIN arrival |->
     arrival[CHOOSE j \in DOMAIN arrival : arrival[j].index = k - 1].payload]

\* C18 Arrival order after the first fragment does not matter: once
\* fragment 0 of a message of total >= 1 fragments has arrived, the
\* fragments 1 .. total - 1 of that message delivered once each, in any
\* order, are only buffered until the last of them is delivered, and that
\* delivery completes the message with the payloads concatenated in index
\* order as the text passed to JSON.parse.
C18_AnyOrderAfterFirst ==
  (arrival # <<>> /\ arrival[1].total >= 1) =>
    IF Len(arrival) = arrival[1].total
      THEN /\ outcome.kind \in Parsed
           /\ outcome.text = TextDecode(Flatten(ArrivalPayloads))
      ELSE outcome.kind = "buffered"

\* Fragment 0 of a message of three fragments arrived, then its fragment 2,
\* then its fragment 1, which completed it.
C18_Witness ==
  /\ Len(arrival) = 3
  /\ arrival[2].index = 2
  /\ arrival[3].index = 1
  /\ outcome.kind \in Parsed

\* C19 An exception raised inside a handler does not leave onResponse: it
\* is caught by the catch clause that also catches the JSON.parse error and
\* reported, and the buffer is reset afterwards all the same.
C19_HandlerExceptionCaught ==
  /\ (outcome.kind = "handlerError") =>
       /\ ValidJson
       /\ Idle(chunks, expectedChunks)
  /\ (ValidJson /\ handleResponse(ParsedValue).threw) =>
       outcome.kind = "handlerError"

\* The message {"type":"scan_result"}, without networks, arrived whole: the
\* scan_result handler ran and raised.
C19_Witness ==
  /\ event = Fragment(0, 1, Utf8(TextScanNoNetworks))
  /\ outcome = Outcome("handlerError", TextScanNoNetworks, <<"scan_result">>)

\* C13 No cancellation other than index 0: a sendCommand call, the steps of
\* connect, the disconnect event and the settling of a write leave chunks
\* and expectedChunks as they are, and a fragment of index other than 0
\* that does not reach JSON.parse leaves expectedChunks and every populated
\* index populated, changing at most the payload at its own index.  So
\* buffered payloads are removed only by a fragment of index 0 or by
\* completion.
C13_NoOtherCancellation ==
  [][/\ (op' # "onResponse") =>
          /\ chunks' = chunks
          /\ expectedChunks' = expectedChunks
     /\ (op' = "onResponse" /\ event'.index # 0 /\ outcome'.kind \notin Parsed) =>
          /\ expectedChunks' = expectedChunks
          /\ DOMAIN chunks \subseteq DOMAIN chunks'
          /\ \A i \in DOMAIN chunks \ {event'.index} : chunks'[i] = chunks[i]]_vars

\* The first fragment of a message of two is buffered, the device has
\* disconnected since, and a connect that followed has failed.
C13_Witness ==
  /\ op = "connectFailed"
  /\ ~connected
  /\ expectedChunks = 2
  /\ chunks = StoreChunk(EmptyChunks, 0, PieceHead)

\* C15 Transport failure: when a write is rejected, the sendCommand call
\* that made it ends rejected for its caller (connect, for the ping, ends
\* in its catch clause), the write leaves the writes in flight and nothing
\* starts it again; writes start only in sendCommand calls (from the user
\* interface or from connect), one per call at most.
C15_TransportFailure ==
  [][/\ (op' = "writeRejected") =>
          /\ sendResult' = "rejected"
          /\ pendingWrites' = pendingWrites - 1
          /\ ((connectPc = "ping" /\ connectPc' = "idle") => ~connected')
     /\ (pendingWrites' > pendingWrites) =>
          /\ pendingWrites' = pendingWrites + 1
          /\ op' \in {"sendCommand", "connect"}]_vars

\* A write of a user-interface call was rejected while the ping of connect
\* was still in flight.
C15_Witness ==
  /\ op = "writeRejected"
  /\ sendResult = "rejected"
  /\ connectPc = "ping"
  /\ pendingWrites = 1

\* C16 Inbound and outbound are independent: while onResponse listens, a
\* fragment (here the first fragment of a message) can be processed
\* whatever number of writes is in flight; what a call does to the buffer and what it dispatches is a function of
\* the buffer and the fragment alone; and no step of the outbound side
\* changes the buffer, the last fragment or the last outcome.  So the
\* messages dispatched are those dispatched with no command sent.
C16_Independent ==
  /\ [](listening => ENABLED OnResponse(Fragment(0, 2, PieceHead)))
  /\ [][/\ (op' = "onResponse") =>
              /\ chunks' = onResponse(chunks, expectedChunks, event').chunks
              /\ expectedChunks' =
                   onResponse(chunks, expectedChunks, event').expectedChunks
              /\ outcome' = onResponse(chunks, expectedChunks, event').outcome
              /\ UNCHANGED linkVars
        /\ (op' # "onResponse") => UNCHANGED reassemblyVars]_vars

\* The two fragments of {"type":"pong"} arrived while two writes were in
\* flight, and the message was dispatched.
C16_Witness ==
  /\ op = "onResponse"
  /\ pendingWrites = 2
  /\ run = <<Fragment(0, 2, PieceHead), Fragment(1, 2, PieceTail)>>
  /\ outcome = Outcome("dispatched", TextPong, <<"pong">>)

\* C20 sendCommand is gated only by commandChar: while it is null a call
\* writes nothing and returns; once a connect call has set it nothing
\* clears it, neither the disconnect event nor a connect that fails, so
\* every later call makes exactly one write.
C20_GatedByCommandChar ==
  [][/\ commandChar => commandChar'
     /\ (op' = "sendCommand") =>
          IF commandChar
            THEN pendingWrites' = pendingWrites + 1
            ELSE pendingWrites' = pendingWrites /\ sendResult' = "returned"]_vars

\* commandChar was obtained, the connect call failed before it subscribed,
\* and a sendCommand call has made a write all the same.
C20_Witness ==
  /\ op = "sendCommand"
  /\ commandChar
  /\ ~listening
  /\ ~connected
  /\ pendingWrites = 1

====
